---- MODULE Spec2Model ----
(***************************************************************************)
(* Model of package blake2s (src/blake2s/blake2s.go): the Go type digest   *)
(* that wraps the BLAKE2s C reference library through cgo.                 *)
(*                                                                         *)
(* The Go methods (New, New256, Reset, Write, Sum, Size, BlockSize) are    *)
(* translated from blake2s.go.  The C functions they call                  *)
(* (blake2s_init_param, blake2s_init_key, blake2s_update, blake2s_final)   *)
(* are not among the Go sources; they are modelled after sections 3, 4.1,  *)
(* 4.3 and 7 of the specification.  The compression function F is kept     *)
(* symbolic: a chaining value is the initial chaining value (IV XOR        *)
(* parameter block, computed byte by byte) together with the list of       *)
(* (block, counter, flags) inputs compressed into it so far, so that two   *)
(* chaining values are equal exactly when they were produced by the same   *)
(* compressions (an ideal, collision-free F).                              *)
(***************************************************************************)
EXTENDS Integers, Sequences, FiniteSets

VARIABLES d, built, panicked, ctor, fresh, start, msg, writes, resets, sums, last

vars == <<d, built, panicked, ctor, fresh, start, msg, writes, resets, sums, last>>

(***************************************************************************)
(* Sizes of the C library (blake2.h) as the Go code and the spec use them. *)
(***************************************************************************)
BLAKE2S_BLOCKBYTES == 64
BLAKE2S_OUTBYTES == 32
BLAKE2S_KEYBYTES == 32
BLAKE2S_SALTBYTES == 8
BLAKE2S_PERSONALBYTES == 8
\* len(config.Key) > 255 panics: the key length must fit C.uint8_t
MaxUint8 == 255

(***************************************************************************)
(* Bounds of the model.                                                    *)
(***************************************************************************)
\* Write calls in one behaviour
MaxWrites == 3

(***************************************************************************)
(* Byte helpers.                                                           *)
(***************************************************************************)
Min(a, b) == IF a < b THEN a ELSE b

Rep(b, n) == [i \in 1..n |-> b]

Take(s, n) == SubSeq(s, 1, Min(n, Len(s)))

Drop(s, n) == SubSeq(s, n + 1, Len(s))

\* Go's builtin copy(dst, src): min(len) bytes are copied, the rest of dst stays
copy(dst, src) == [i \in 1..Len(dst) |-> IF i <= Len(src) THEN src[i] ELSE dst[i]]

RECURSIVE XorBits(_, _, _)
XorBits(a, b, n) ==
    IF n = 0 THEN 0
    ELSE (((a % 2) + (b % 2)) % 2) + (2 * XorBits(a \div 2, b \div 2, n - 1))

\* XOR of two bytes
Xor8(a, b) == XorBits(a, b, 8)

\* little-endian bytes of an unsigned integer
RECURSIVE LE(_, _)
LE(v, n) == IF n = 0 THEN <<>> ELSE <<(v % 256)>> \o LE(v \div 256, n - 1)

(***************************************************************************)
(* The C library's types: blake2s_param and blake2s_state.                 *)
(***************************************************************************)
\* the zero value of C.blake2s_param
ZeroParam ==
    [digest_length |-> 0, key_length |-> 0, fanout |-> 0, depth |-> 0,
     leaf_length |-> 0, node_offset |-> 0, node_depth |-> 0, inner_length |-> 0,
     salt |-> Rep(0, BLAKE2S_SALTBYTES), personal |-> Rep(0, BLAKE2S_PERSONALBYTES)]

\* the zero value of C.blake2s_state; buf holds the pending bytes only
ZeroState ==
    [h |-> [iv |-> Rep(0, 32), absorbed |-> <<>>],
     t |-> 0, f |-> <<0, 0>>, buf |-> <<>>, buflen |-> 0, last_node |-> 0]

\* the BLAKE2s initialization vector, as 32 little-endian bytes
blake2s_IV ==
    << 103, 230,   9, 106,   133, 174, 103, 187,
       114, 243, 110,  60,    58, 245,  79, 165,
       127,  82,  14,  81,   140, 104,   5, 155,
       171, 217, 131,  31,    25, 205, 224,  91 >>

\* the parameter block serialized to its 32 bytes
ParamBytes(P) ==
    <<P.digest_length, P.key_length, P.fanout, P.depth>>
    \o LE(P.leaf_length, 4) \o LE(P.node_offset, 6)
    \o <<P.node_depth, P.inner_length>> \o P.salt \o P.personal

\* the compression function F, symbolic: the inputs are appended to the
\* history of the chaining value
blake2s_compress(S, block) ==
    [S EXCEPT !.h.absorbed = Append(@, [block |-> block, t |-> S.t, f |-> S.f])]

blake2s_increment_counter(S, inc) == [S EXCEPT !.t = @ + inc]

\* is the parameter block within the bounds of sections 3 and 7 of the spec
ParamValid(P) ==
    /\ P.digest_length \in 1..BLAKE2S_OUTBYTES
    /\ P.key_length \in 0..BLAKE2S_KEYBYTES
    /\ P.inner_length \in 0..BLAKE2S_OUTBYTES

\* blake2s_init_param(S, P): h := IV XOR P, counters, flags and buffer cleared
blake2s_init_param(S, P) ==
    IF ~ParamValid(P) THEN [rc |-> -1, S |-> S]
    ELSE [rc |-> 0,
          S |-> [ZeroState EXCEPT
                   !.h.iv = [i \in 1..32 |-> Xor8(blake2s_IV[i], ParamBytes(P)[i])]]]

\* the loop of blake2s_update over the input that is left once the buffer
\* was flushed: whole blocks are compressed while more input follows them
RECURSIVE UpdateRest(_, _)
UpdateRest(S, in) ==
    IF Len(in) > BLAKE2S_BLOCKBYTES
    THEN UpdateRest(blake2s_compress(blake2s_increment_counter(S, BLAKE2S_BLOCKBYTES),
                                     Take(in, BLAKE2S_BLOCKBYTES)),
                    Drop(in, BLAKE2S_BLOCKBYTES))
    ELSE [S EXCEPT !.buf = in, !.buflen = Len(in)]

\* blake2s_update(S, in, inlen)
blake2s_update(S, in) ==
    IF Len(in) = 0 THEN S
    ELSE LET left == S.buflen
             fill == BLAKE2S_BLOCKBYTES - left
         IN  IF Len(in) > fill
             THEN UpdateRest(
                     blake2s_compress(
                        blake2s_increment_counter(
                           [S EXCEPT !.buf = <<>>, !.buflen = 0], BLAKE2S_BLOCKBYTES),
                        S.buf \o Take(in, fill)),
                     Drop(in, fill))
             ELSE [S EXCEPT !.buf = @ \o in, !.buflen = @ + Len(in)]

\* blake2s_init_key(S, outlen, key, keylen)
blake2s_init_key(S, outlen, key) ==
    IF \/ outlen \notin 1..BLAKE2S_OUTBYTES
       \/ Len(key) \notin 1..BLAKE2S_KEYBYTES
    THEN [rc |-> -1, S |-> S]
    ELSE LET P == [ZeroParam EXCEPT !.digest_length = outlen,
                                    !.key_length = Len(key),
                                    !.fanout = 1, !.depth = 1]
             r == blake2s_init_param(S, P)
         IN  IF r.rc < 0 THEN r
             ELSE [rc |-> 0,
                   S |-> blake2s_update(r.S,
                            key \o Rep(0, BLAKE2S_BLOCKBYTES - Len(key)))]

\* one byte of output: a literal byte (of = <<>>, at = its value) or byte
\* number at of the serialized chaining value of = <<h>>
Lit(b) == [of |-> <<>>, at |-> b]

HashByte(h, i) == [of |-> <<h>>, at |-> i]

\* blake2s_final(S, out, outlen): the state after the last compression and
\* the outlen bytes written to out
blake2s_final(S, outlen) ==
    LET S1 == blake2s_increment_counter(S, S.buflen)
        S2 == [S1 EXCEPT !.f = <<1, IF S.last_node = 1 THEN 1 ELSE 0>>]
        S3 == blake2s_compress(S2, S.buf \o Rep(0, BLAKE2S_BLOCKBYTES - S.buflen))
    IN  [S |-> S3, out |-> [i \in 1..outlen |-> HashByte(S3.h, i)]]

(***************************************************************************)
(* The Go package: Tree, Config, digest and its methods.                   *)
(***************************************************************************)
\* config.Tree == nil
NilTree ==
    [isNil |-> TRUE, Fanout |-> 0, MaxDepth |-> 0, LeafSize |-> 0, NodeDepth |-> 0,
     NodeOffset |-> 0, InnerHashSize |-> 0, IsLastNode |-> FALSE]

\* the zero value of Config (isNil = FALSE) ...
ZeroConfig ==
    [isNil |-> FALSE, Size |-> 0, Key |-> <<>>, Salt |-> <<>>, Personal |-> <<>>,
     Tree |-> NilTree]

\* ... and the nil *Config
NilConfig == [ZeroConfig EXCEPT !.isNil = TRUE]

\* the zero value of digest
ZeroDigest ==
    [blockSize |-> 0, state |-> ZeroState, key |-> <<>>, param |-> ZeroParam,
     isLastNode |-> FALSE]

\* New, lines 69-76: the digest literal
NewLiteral ==
    [ZeroDigest EXCEPT !.blockSize = 64,
                       !.param.digest_length = 32,
                       !.param.fanout = 1,
                       !.param.depth = 1]

\* New, lines 78-80: the digest length
SetSize(dg, config) ==
    IF config.Size # 0 THEN [dg EXCEPT !.param.digest_length = config.Size] ELSE dg

\* New, lines 81-89: the key (the panic of line 85 is raised by New)
SetKey(dg, config) ==
    IF Len(config.Key) > 0
    THEN [dg EXCEPT !.param.key_length = Len(config.Key), !.key = config.Key]
    ELSE dg

\* New, lines 90-91: the salt
SetSalt(dg, config) == [dg EXCEPT !.param.salt = copy(@, config.Salt)]

\* New as it would be without the copy of config.Personal
SetPersonalDropped(dg, config) == dg

\* New, lines 92-93: the personalization
SetPersonal(dg, config) == [dg EXCEPT !.param.personal = copy(@, config.Personal)]

\* New, lines 95-104: the tree parameters
SetTree(dg, config) ==
    IF ~config.Tree.isNil
    THEN [dg EXCEPT !.param.fanout = config.Tree.Fanout,
                    !.param.depth = config.Tree.MaxDepth,
                    !.param.leaf_length = config.Tree.LeafSize,
                    !.param.node_offset = config.Tree.NodeOffset,
                    !.param.node_depth = config.Tree.NodeDepth,
                    !.param.inner_length = config.Tree.InnerHashSize,
                    !.isLastNode = config.Tree.IsLastNode]
    ELSE dg

\* Reset as it would be without lines 131-133
ResetWithoutLastNode(dg) ==
    LET r == blake2s_init_param(dg.state, dg.param)
    IN  IF r.rc < 0 THEN [panic |-> "blake2s: unable to reset", d |-> dg]
        ELSE [panic |-> "", d |-> [dg EXCEPT !.state = r.S]]

\* func (d *digest) Reset(): the digest after the call, or the panic
Reset(dg) ==
    LET r == blake2s_init_param(dg.state, dg.param)
    IN  IF r.rc < 0 THEN [panic |-> "blake2s: unable to reset", d |-> dg]
        ELSE [panic |-> "",
              d |-> [dg EXCEPT !.state = IF dg.isLastNode
                                         THEN [r.S EXCEPT !.last_node = 1]
                                         ELSE r.S]]

\* func New(config *Config) *digest: the digest returned, or the panic
New(config) ==
    IF config.isNil THEN Reset(NewLiteral)
    ELSE IF Len(config.Key) > MaxUint8
         THEN [panic |-> "blake2s key too long", d |-> NewLiteral]
         ELSE Reset(SetTree(SetPersonal(SetSalt(SetKey(SetSize(NewLiteral, config),
                                                       config), config), config), config))

\* func New256(key []byte) hash.Hash: the digest returned, or the panic
\* (&key[0] of an empty key is an index out of range)
New256(key) ==
    LET n == New(NilConfig)
    IN  IF n.panic # "" THEN n
        ELSE IF Len(key) = 0
             THEN [panic |-> "index out of range", d |-> n.d]
             ELSE LET r == blake2s_init_key(n.d.state, 32, key)
                  IN  IF r.rc < 0
                      THEN [panic |-> "blake2s: unable to init key", d |-> n.d]
                      ELSE [panic |-> "", d |-> [n.d EXCEPT !.state = r.S]]

\* func (d *digest) BlockSize() int
BlockSize(dg) == dg.blockSize

\* func (d *digest) Size() int
Size(dg) == dg.param.digest_length

\* Write as it would be with the guard len(buf) > 1
WriteSkipsOneByte(dg, buf) ==
    [d |-> IF Len(buf) > 1
           THEN [dg EXCEPT !.state = blake2s_update(dg.state, buf)]
           ELSE dg,
     n |-> Len(buf),
     err |-> "nil"]

\* Write as it would be returning the number of bytes left in the buffer
WriteReturnsBuffered(dg, buf) ==
    LET S == blake2s_update(dg.state, buf)
    IN  [d |-> IF Len(buf) > 0 THEN [dg EXCEPT !.state = S] ELSE dg,
         n |-> S.buflen,
         err |-> "nil"]

\* func (d *digest) Write(buf []byte) (int, error)
Write(dg, buf) ==
    [d |-> IF Len(buf) > 0
           THEN [dg EXCEPT !.state = blake2s_update(dg.state, buf)]
           ELSE dg,
     n |-> Len(buf),
     err |-> "nil"]

\* Sum as it would be finalizing d.state itself (s := &d.state)
SumNoCopy(dg, buf) ==
    LET digest == Rep(Lit(0), Size(dg))
        fin == blake2s_final(dg.state, Size(dg))
    IN  [d |-> [dg EXCEPT !.state = fin.S],
         out |-> [i \in 1..Len(buf) |-> Lit(buf[i])] \o copy(digest, fin.out)]

\* Sum as it would be with a digest buffer of the default 32 bytes
SumFixedLength(dg, buf) ==
    LET digest == Rep(Lit(0), BLAKE2S_OUTBYTES)
        s == dg.state
        fin == blake2s_final(s, Size(dg))
    IN  [d |-> dg,
         out |-> [i \in 1..Len(buf) |-> Lit(buf[i])] \o copy(digest, fin.out)]

\* func (d *digest) Sum(buf []byte) []byte: the bytes returned, and the
\* digest after the call (the copy s is finalized, d.state is not)
Sum(dg, buf) ==
    LET digest == Rep(Lit(0), Size(dg))
        s == dg.state
        fin == blake2s_final(s, Size(dg))
    IN  [d |-> dg,
         out |-> [i \in 1..Len(buf) |-> Lit(buf[i])] \o copy(digest, fin.out)]

(***************************************************************************)
(* The inputs of the model.                                                *)
(***************************************************************************)
\* a tree node of a binary tree of depth 2
TreeNode ==
    [NilTree EXCEPT !.isNil = FALSE, !.Fanout = 2, !.MaxDepth = 2, !.LeafSize = 64,
                    !.InnerHashSize = 32]

Trees ==
    { TreeNode,
      [TreeNode EXCEPT !.IsLastNode = TRUE, !.NodeOffset = 1],
      [TreeNode EXCEPT !.InnerHashSize = BLAKE2S_OUTBYTES + 1] }

Sizes == {16, BLAKE2S_OUTBYTES + 1}

Keys == {<<1>>, <<2>>, Rep(1, BLAKE2S_KEYBYTES + 1), Rep(1, MaxUint8 + 1)}

Salts == {<<5>>, Rep(5, BLAKE2S_SALTBYTES + 1)}

Personals == {<<5>>, Rep(5, BLAKE2S_PERSONALBYTES + 1)}

\* the configurations handed to New: nil, the zero Config, and Configs that
\* set one field, or a key and a personalization (as the package's test does)
Configs ==
    {NilConfig, ZeroConfig}
    \cup {[ZeroConfig EXCEPT !.Size = x] : x \in Sizes}
    \cup {[ZeroConfig EXCEPT !.Key = x] : x \in Keys}
    \cup {[ZeroConfig EXCEPT !.Salt = x] : x \in Salts}
    \cup {[ZeroConfig EXCEPT !.Personal = x] : x \in Personals}
    \cup {[ZeroConfig EXCEPT !.Tree = x] : x \in Trees}
    \cup {[ZeroConfig EXCEPT !.Key = <<1>>, !.Personal = <<5>>]}

\* the keys handed to New256
Keys256 == {<<>>, <<1>>, <<2>>, Rep(1, BLAKE2S_KEYBYTES + 1)}

\* the buffers handed to Write: empty, short, and around a block
Chunks ==
    {<<>>, <<1>>, Rep(1, BLAKE2S_BLOCKBYTES - 1), Rep(2, BLAKE2S_BLOCKBYTES + 1)}

\* the prefixes handed to Sum
Prefixes == {<<>>, <<9>>}

(***************************************************************************)
(* The state machine: a caller constructs one engine and then calls its    *)
(* methods in any order.  d is the engine; built says that a constructor   *)
(* returned it; panicked holds the panic of a constructor that did not.    *)
(* History: ctor is the constructor call, fresh the engine as it was       *)
(* returned, start the engine as construction or the last Reset left it,   *)
(* msg the bytes written since then, sums whether Sum was called since     *)
(* then (1) and a Write followed it (2), resets whether Reset was called   *)
(* (0 or 1), last the last call with what it returned.                     *)
(***************************************************************************)
NoCall == [op |-> "none", buf |-> <<>>, n |-> 0, err |-> "nil", out |-> <<>>, size |-> 0]

Init ==
    /\ d = ZeroDigest
    /\ built = FALSE
    /\ panicked = ""
    /\ ctor = [kind |-> "none", config |-> NilConfig, key |-> <<>>]
    /\ fresh = ZeroDigest
    /\ start = ZeroDigest
    /\ msg = <<>>
    /\ sums = 0
    /\ writes = 0
    /\ resets = 0
    /\ last = NoCall

\* a constructor call that returned r
Constructed(r) ==
    /\ IF r.panic = ""
       THEN d' = r.d /\ fresh' = r.d /\ start' = r.d /\ built' = TRUE /\ panicked' = ""
       ELSE /\ built' = FALSE /\ panicked' = r.panic
            /\ UNCHANGED <<d, fresh, start>>
    /\ UNCHANGED <<msg, writes, resets, sums>>

CallNew(config) ==
    /\ ~built /\ panicked = ""
    /\ ctor' = [kind |-> "New", config |-> config, key |-> <<>>]
    /\ last' = [NoCall EXCEPT !.op = "New"]
    /\ Constructed(New(config))

CallNew256(key) ==
    /\ ~built /\ panicked = ""
    /\ ctor' = [kind |-> "New256", config |-> NilConfig, key |-> key]
    /\ last' = [NoCall EXCEPT !.op = "New256"]
    /\ Constructed(New256(key))

CallWrite(buf) ==
    /\ built /\ writes < MaxWrites
    /\ LET r == Write(d, buf)
       IN  /\ d' = r.d
           /\ last' = [NoCall EXCEPT !.op = "Write", !.buf = buf, !.n = r.n, !.err = r.err]
    /\ msg' = msg \o buf
    /\ writes' = writes + 1
    /\ sums' = IF sums = 0 THEN 0 ELSE 2
    /\ UNCHANGED <<built, panicked, ctor, fresh, start, resets>>

CallSum(buf) ==
    /\ built
    /\ LET r == Sum(d, buf)
       IN  /\ d' = r.d
           /\ last' = [NoCall EXCEPT !.op = "Sum", !.buf = buf, !.out = r.out]
    /\ sums' = IF sums = 0 THEN 1 ELSE sums
    /\ UNCHANGED <<built, panicked, ctor, fresh, start, msg, writes, resets>>

CallReset ==
    /\ built
    /\ LET r == Reset(d)
       IN  IF r.panic = ""
           THEN d' = r.d /\ start' = r.d /\ UNCHANGED <<built, panicked>>
           ELSE built' = FALSE /\ panicked' = r.panic /\ UNCHANGED <<d, start>>
    /\ last' = [NoCall EXCEPT !.op = "Reset"]
    /\ msg' = <<>>
    /\ sums' = 0
    /\ resets' = 1
    /\ UNCHANGED <<ctor, fresh, writes>>

CallSize ==
    /\ built
    /\ last' = [NoCall EXCEPT !.op = "Size", !.size = Size(d)]
    /\ UNCHANGED <<d, built, panicked, ctor, fresh, start, msg, writes, resets, sums>>

CallBlockSize ==
    /\ built
    /\ last' = [NoCall EXCEPT !.op = "BlockSize", !.size = BlockSize(d)]
    /\ UNCHANGED <<d, built, panicked, ctor, fresh, start, msg, writes, resets, sums>>

Next ==
    \/ \E config \in Configs : CallNew(config)
    \/ \E key \in Keys256 : CallNew256(key)
    \/ \E buf \in Chunks : CallWrite(buf)
    \/ \E buf \in Prefixes : CallSum(buf)
    \/ CallReset
    \/ CallSize
    \/ CallBlockSize

Spec == Init /\ [][Next]_vars

(***************************************************************************)
(* The claims.                                                             *)
(***************************************************************************)
\* what Sum(prefix) returns on the engine start after one Write of all of m
DigestOf(m, prefix) == Sum(Write(start, m).d, prefix).out

\* C1: Sum leaves the engine (chaining value, counters, buffer and its fill
\* length, last-node flag, parameter block) as it was; two Sum calls in a
\* row with the same prefix return the same bytes; and every Sum, also one
\* that follows Write(a); Sum(); Write(b), returns the digest of all the
\* bytes written so far.
SumIsNonDestructive ==
    /\ [][last'.op = "Sum" => d' = d]_vars
    /\ [][(last.op = "Sum" /\ last'.op = "Sum" /\ last'.buf = last.buf)
            => last'.out = last.out]_vars
    /\ [](last.op = "Sum" => last.out = DigestOf(msg, last.buf))

\* a Sum that follows Write(a); Sum(); Write(b), with a||b longer than a block
SumAfterSumAndWrite ==
    /\ last.op = "Sum" /\ sums = 2
    /\ Len(msg) > BLAKE2S_BLOCKBYTES
    /\ d.state.buflen \notin {0, BLAKE2S_BLOCKBYTES}

\* C2: after Write(c1); ...; Write(ck) the engine is in the state that one
\* Write of c1 \o ... \o ck leaves it in, and Sum returns the same digest;
\* a Write of zero bytes leaves the engine unchanged.
StreamingEquivalence ==
    /\ [](built => d = Write(start, msg).d)
    /\ [](built => Sum(d, <<>>).out = DigestOf(msg, <<>>))
    /\ [][(last'.op = "Write" /\ last'.buf = <<>>) => d' = d]_vars

\* three chunks, the last one empty, that do not end on a block boundary
\* and together span more than one block
ChunkedAcrossBlocks ==
    /\ built /\ writes = MaxWrites
    /\ last.op = "Write" /\ last.buf = <<>>
    /\ Len(msg) > BLAKE2S_BLOCKBYTES
    /\ d.state.buflen \notin {0, BLAKE2S_BLOCKBYTES}
    /\ Len(d.state.h.absorbed) > 0

\* C3: Reset returns the engine to its state after construction, so that
\* Write(a); Reset(); Write(b); Sum() returns what Write(b); Sum() returns
\* on a freshly constructed engine.
ResetEquivalence ==
    /\ (built /\ last.op = "Reset") => d = fresh
    /\ (built /\ resets > 0 /\ last.op = "Sum")
          => last.out = Sum(Write(fresh, msg).d, last.buf).out

\* the key, zero-padded to one block
KeyBlock(key) == key \o Rep(0, BLAKE2S_BLOCKBYTES - Len(key))

\* the streaming state initialized from the engine's parameter block (and
\* last-node flag) that then absorbed the key block
KeyedState(dg) ==
    LET S == blake2s_init_param(ZeroState, dg.param).S
    IN  blake2s_update([S EXCEPT !.last_node = IF dg.isLastNode THEN 1 ELSE 0],
                       KeyBlock(dg.key))

\* C4: an engine built by New with a key of 1..32 bytes has absorbed the
\* zero-padded key block right after construction and after every Reset,
\* and its state differs from that of an engine built with another key of
\* the same length.
KeyIsFirstBlock ==
    (/\ built /\ ctor.kind = "New"
     /\ Len(ctor.config.Key) \in 1..BLAKE2S_KEYBYTES
     /\ last.op \in {"New", "Reset"})
    => /\ d.state = KeyedState(d)
       /\ \A k \in Keys :
             (Len(k) = Len(ctor.config.Key) /\ k # ctor.config.Key)
             => New([ctor.config EXCEPT !.Key = k]).d.state # d.state

\* a configuration outside the bounds of the parameter block
InvalidConfig(config) ==
    /\ ~config.isNil
    /\ \/ config.Size > BLAKE2S_OUTBYTES
       \/ Len(config.Key) > BLAKE2S_KEYBYTES
       \/ Len(config.Salt) > BLAKE2S_SALTBYTES
       \/ Len(config.Personal) > BLAKE2S_PERSONALBYTES
       \/ (~config.Tree.isNil /\ config.Tree.InnerHashSize > BLAKE2S_OUTBYTES)

\* C5: New fails on every invalid configuration: it panics and returns no
\* engine.
ConstructionFailsFast ==
    (ctor.kind = "New" /\ InvalidConfig(ctor.config))
    => (~built /\ panicked # "" /\ d = ZeroDigest)

\* C6: for a key of 1..32 bytes New256(key) returns an engine with Size() =
\* 32 that has the parameter block and the state of
\* New(&Config{Size: 32, Key: key}), and returns its digests.
New256IsNewWithKey ==
    (/\ built /\ ctor.kind = "New256"
     /\ Len(ctor.key) \in 1..BLAKE2S_KEYBYTES)
    => LET e == New([ZeroConfig EXCEPT !.Size = 32, !.Key = ctor.key]).d
           estart == IF resets = 0 THEN e ELSE Reset(e).d
       IN  /\ Size(d) = 32
           /\ fresh.param = e.param
           /\ fresh.state = e.state
           /\ last.op = "Sum" => last.out = Sum(Write(estart, msg).d, last.buf).out

\* the digest length the constructor call asked for
ConfiguredSize ==
    IF ctor.kind = "New" /\ ~ctor.config.isNil /\ ctor.config.Size # 0
    THEN ctor.config.Size
    ELSE 32

Field(x, n) == [i \in 1..n |-> IF i <= Len(x) THEN x[i] ELSE 0]

\* the personalizations and salts of the peer engines
PeerStrings == {<<>>, <<0>>, <<5>>, Rep(5, 8), Rep(5, 9)}

\* the configuration of the constructor call (nil is the zero Config)
ThisConfig == IF ctor.config.isNil THEN ZeroConfig ELSE ctor.config

\* what Sum(last.buf) returns on a peer engine e after the calls this one got
PeerSum(e) ==
    Sum(Write(IF resets = 0 THEN e ELSE Reset(e).d, msg).d, last.buf).out

\* e is a peer whose parameter block, initial chaining value and digest
\* are those of this engine
PeerAgrees(e) ==
    /\ e.param = fresh.param
    /\ e.state.h.iv = fresh.state.h.iv
    /\ PeerSum(e) = last.out

\* e is a peer whose parameter block, initial chaining value and digest
\* all differ from those of this engine
PeerDiffers(e) ==
    /\ e.param # fresh.param
    /\ e.state.h.iv # fresh.state.h.iv
    /\ PeerSum(e) # last.out

WriteNeverFails ==
    last.op = "Write" => (last.n = Len(last.buf) /\ last.err = "nil")

\* Writes, one of them empty, after a Sum and after a Reset
WriteAfterSumAndReset ==
    /\ last.op = "Write" /\ last.buf = <<>>
    /\ resets > 0 /\ sums = 2 /\ Len(msg) > BLAKE2S_BLOCKBYTES

\* the engine was built with a Tree whose IsLastNode is set
ConfiguredLastNode ==
    /\ ctor.kind = "New" /\ ~ctor.config.isNil
    /\ ~ctor.config.Tree.isNil /\ ctor.config.Tree.IsLastNode

\* the flags f of the last compression behind the bytes Sum returned
FinalFlags(out) ==
    LET h == out[Len(out)].of[1]
    IN  h.absorbed[Len(h.absorbed)].f

\* C10: the last-node flag of the state is the configured Tree.IsLastNode in
\* every state of a constructed engine (clear without a Tree), and the
\* snapshot Sum finalizes carries it into the last compression.
LastNodeFlag ==
    built =>
       /\ d.state.last_node = (IF ConfiguredLastNode THEN 1 ELSE 0)
       /\ d.isLastNode = ConfiguredLastNode
       /\ last.op = "Sum"
             => FinalFlags(last.out) = <<1, IF ConfiguredLastNode THEN 1 ELSE 0>>

\* Sum on a last node after a Reset and a Write
SumOfLastNode ==
    /\ built /\ ConfiguredLastNode /\ resets > 0 /\ msg # <<>>
    /\ last.op = "Sum" /\ d.state.last_node = 1

====
